---- MODULE Spec2Model ----
(***************************************************************************)
(* The chess rules engine of steelmate: the board model (lib/board.rs) and *)
(* the move generator and executor (lib/engine.rs).                        *)
(*                                                                         *)
(* A Position is a record [row, col] of signed integers, a Piece a record  *)
(* [kind, color, has_moved], a Board a record [size, board] whose board    *)
(* field is the HashMap<Position, Piece>: a function whose DOMAIN is the   *)
(* set of keys.  Option<T> is a set of at most one element (None = {}),    *)
(* a Vec<Position> of destinations is the set of its elements (no         *)
(* generator pushes a square twice), and Result<T, String> is a record     *)
(* [status, val, err].  A call that does not return (stack overflow,       *)
(* arithmetic-overflow panic, unwrap of an Err) has status "Abort".        *)
(***************************************************************************)
EXTENDS Integers, FiniteSets, Sequences, TLC

VARIABLES board, last, budget, state_history, threads

vars == <<board, last, budget, state_history, threads>>

\* the game store and the request threads (lib/game_repository.rs, lib/controller.rs)
game == <<state_history, threads>>

----------------------------------------------------------------------------
(* Bounds of the model *)

\* side of the boards the arbitrary-board specification starts from
SmallSize == 3

\* number of engine calls made on the standard arrangement in one behaviour
MaxCalls == 3

----------------------------------------------------------------------------
(* Values *)

PieceKind == {"King", "Queen", "Rook", "Bishop", "Knight", "Pawn"}

Color == {"Black", "White"}

Position(row, col) == [row |-> row, col |-> col]

add(p1, p2) == Position(p1.row + p2.row, p1.col + p2.col)

Piece(kind, color) == [kind |-> kind, color |-> color, has_moved |-> FALSE]

\* the largest and the smallest i32
I32Max == 2147483647

I32Min == -I32Max - 1

\* i32 addition: the sum, and whether it overflowed (a release build wraps)
AddI32(x, y) ==
    IF y > 0 /\ x > I32Max - y THEN [val |-> I32Min + (y - 1 - (I32Max - x)), overflow |-> TRUE]
    ELSE IF y < 0 /\ x < I32Min - y THEN [val |-> I32Max - (-y - 1 - (x - I32Min)), overflow |-> TRUE]
    ELSE [val |-> x + y, overflow |-> FALSE]

Ok(v) == [status |-> "Ok", val |-> v, err |-> ""]

Err(msg) == [status |-> "Err", val |-> {}, err |-> msg]

Abort(why) == [status |-> "Abort", val |-> {}, err |-> why]

OutOfBounds == "Index out of bounds"

NotAllowed == "You cannot move to this space"

NoPieceAtOrigin == "The from space does not contain a piece to move"

NotSupported == "not supported"

----------------------------------------------------------------------------
(* lib/board.rs *)

is_out_of_bounds(val, lower, upper) == val < lower \/ val >= upper

validate_position(b, p) ==
    IF is_out_of_bounds(p.col, 0, b.size) \/ is_out_of_bounds(p.row, 0, b.size)
    THEN Err(OutOfBounds)
    ELSE Ok({})

\* HashMap::get: Some(piece) or None
MapGet(m, p) == IF p \in DOMAIN m THEN {m[p]} ELSE {}

EmptyMap == [q \in {} |-> q]

MapRemove(m, p) == [q \in DOMAIN m \ {p} |-> m[q]]

MapInsert(m, p, piece) == [q \in DOMAIN m \cup {p} |-> IF q = p THEN piece ELSE m[q]]

get_space(b, p) ==
    IF validate_position(b, p).status = "Err"
    THEN Err(OutOfBounds)
    ELSE Ok(MapGet(b.board, p))

is_empty_space(b, p) ==
    LET r == get_space(b, p) IN r.status = "Ok" /\ r.val = {}

\* set_space without validate_position
set_space_unvalidated(b, p, piece) ==
    IF piece = {}
    THEN [board |-> [b EXCEPT !.board = MapRemove(b.board, p)],
          ret |-> Ok(MapGet(b.board, p))]
    ELSE [board |-> [b EXCEPT !.board = MapInsert(b.board, p, CHOOSE x \in piece : TRUE)],
          ret |-> Ok(MapGet(b.board, p))]

\* returns the board after the call and the call's result (the previous occupant)
set_space(b, p, piece) ==
    IF validate_position(b, p).status = "Err"
    THEN [board |-> b, ret |-> Err(OutOfBounds)]
    ELSE IF piece = {}
    THEN [board |-> [b EXCEPT !.board = MapRemove(b.board, p)],
          ret |-> Ok(MapGet(b.board, p))]
    ELSE [board |-> [b EXCEPT !.board = MapInsert(b.board, p, CHOOSE x \in piece : TRUE)],
          ret |-> Ok(MapGet(b.board, p))]

\* move_piece copying the piece instead of taking it out of the map
move_piece_leaves_origin(b, from, to) ==
    IF MapGet(b.board, from) = {}
    THEN [board |-> b, ret |-> Err(NoPieceAtOrigin)]
    ELSE set_space(b, to, {[b.board[from] EXCEPT !.has_moved = TRUE]})

\* move_piece without from_piece.has_moved = true
move_piece_keeps_flag(b, from, to) ==
    IF MapGet(b.board, from) = {}
    THEN [board |-> b, ret |-> Err(NoPieceAtOrigin)]
    ELSE set_space([b EXCEPT !.board = MapRemove(b.board, from)], to, {b.board[from]})

\* move_piece that drops the previous occupant of the destination
move_piece_returns_nothing(b, from, to) ==
    IF MapGet(b.board, from) = {}
    THEN [board |-> b, ret |-> Err(NoPieceAtOrigin)]
    ELSE LET from_piece == [b.board[from] EXCEPT !.has_moved = TRUE]
             removed == [b EXCEPT !.board = MapRemove(b.board, from)]
             done == set_space(removed, to, {from_piece})
         IN  [board |-> done.board,
              ret |-> IF done.ret.status = "Ok" THEN Ok({}) ELSE done.ret]

\* move_piece that flips has_moved instead of setting it
move_piece_flips_flag(b, from, to) ==
    IF MapGet(b.board, from) = {}
    THEN [board |-> b, ret |-> Err(NoPieceAtOrigin)]
    ELSE LET from_piece == [b.board[from] EXCEPT !.has_moved = ~b.board[from].has_moved]
             removed == [b EXCEPT !.board = MapRemove(b.board, from)]
         IN  set_space(removed, to, {from_piece})

\* the piece is taken out of the map before the destination is validated
move_piece(b, from, to) ==
    IF MapGet(b.board, from) = {}
    THEN [board |-> b, ret |-> Err(NoPieceAtOrigin)]
    ELSE LET from_piece == [b.board[from] EXCEPT !.has_moved = TRUE]
             removed == [b EXCEPT !.board = MapRemove(b.board, from)]
         IN  set_space(removed, to, {from_piece})

yield_all_inverse_positions(pos) ==
    {Position(i * pos.row, j * pos.col) : i \in {-1, 1}, j \in {-1, 1}}

Board_new(size) ==
    IF size < 0
    THEN Err("cannot have a negative size")
    ELSE Ok([size |-> size, board |-> EmptyMap])

\* fill with row = Some(r), column = Some(c) / None, or row = None, column = Some(c);
\* row and column are Options (sets of at most one element)
fill(b, row, column, piece) ==
    LET update_positions ==
            IF row # {} /\ column # {} THEN {Position(r, c) : r \in row, c \in column}
            ELSE IF row # {} THEN {Position(r, i) : r \in row, i \in 0 .. b.size - 1}
            ELSE IF column # {} THEN {Position(i, c) : i \in 0 .. b.size - 1, c \in column}
            ELSE {}
    IN  \* the squares of one row or column are all valid or all invalid, so the
        \* first set_space either fails or none does
        IF \E pos \in update_positions : validate_position(b, pos).status = "Err"
        THEN [board |-> b, ret |-> Err(OutOfBounds)]
        ELSE [board |-> [b EXCEPT !.board =
                            [q \in DOMAIN b.board \cup update_positions |->
                                IF q \in update_positions THEN piece ELSE b.board[q]]],
              ret |-> Ok({})]

\* inserted_first: the valid keys of setup_map that its iteration yields before
\* the first invalid one (read only when setup_map has an invalid key)
populate(b, setup_map, inserted_first) ==
    LET valid == {q \in DOMAIN setup_map : validate_position(b, q).status = "Ok"}
        done == IF valid = DOMAIN setup_map THEN valid ELSE inserted_first \cap valid
    IN  [board |-> [b EXCEPT !.board =
                       [q \in DOMAIN b.board \cup done |->
                           IF q \in done THEN setup_map[q] ELSE b.board[q]]],
         ret |-> IF valid = DOMAIN setup_map THEN Ok({}) ELSE Err(OutOfBounds)]

\* the map's keys, in the order HashMap::iter yields them, are not modelled as a
\* sequence: callers that depend on the order take it as a parameter
get_piece_positions(b) == b.board

----------------------------------------------------------------------------
(* lib/engine.rs: move patterns *)

MovePattern(is_repeatable, move_enumerations) ==
    [is_repeatable |-> is_repeatable, move_enumerations |-> move_enumerations]

expand_with_inverses(positions) ==
    UNION {yield_all_inverse_positions(pos) : pos \in positions}

\* get_move_pattern with a knight that keeps jumping along its offset
get_move_pattern_knight_repeats(kind) ==
    CASE kind \in {"King", "Pawn"} -> Err(NotSupported)
      [] kind = "Queen" ->
            Ok(MovePattern(TRUE, expand_with_inverses(
                {Position(0, 1), Position(1, 0), Position(1, 1)})))
      [] kind = "Rook" ->
            Ok(MovePattern(TRUE, expand_with_inverses({Position(0, 1), Position(1, 0)})))
      [] kind = "Bishop" ->
            Ok(MovePattern(TRUE, yield_all_inverse_positions(Position(1, 1))))
      [] kind = "Knight" ->
            Ok(MovePattern(TRUE, expand_with_inverses({Position(1, 2), Position(2, 1)})))

get_move_pattern(kind) ==
    CASE kind \in {"King", "Pawn"} -> Err(NotSupported)
      [] kind = "Queen" ->
            Ok(MovePattern(TRUE, expand_with_inverses(
                {Position(0, 1), Position(1, 0), Position(1, 1)})))
      [] kind = "Rook" ->
            Ok(MovePattern(TRUE, expand_with_inverses({Position(0, 1), Position(1, 0)})))
      [] kind = "Bishop" ->
            Ok(MovePattern(TRUE, yield_all_inverse_positions(Position(1, 1))))
      [] kind = "Knight" ->
            Ok(MovePattern(FALSE, expand_with_inverses({Position(1, 2), Position(2, 1)})))

\* is_enemy_space that takes any piece for an enemy
is_enemy_space_any_piece(b, p, c) ==
    LET r == get_space(b, p)
    IN  r.status = "Ok" /\ r.val # {}

is_enemy_space(b, p, c) ==
    LET r == get_space(b, p)
    IN  r.status = "Ok" /\ \E piece \in r.val : piece.color # c

\* apply_move that keeps walking behind a piece it can capture
RECURSIVE apply_move_through(_, _, _, _, _)
apply_move_through(b, pos, diff, color, repeat) ==
    LET check_pos == add(pos, diff)
    IN  IF validate_position(b, check_pos).status = "Err"
        THEN {}
        ELSE LET space == get_space(b, check_pos).val
             IN  IF space = {} \/ \E piece \in space : piece.color # color
                 THEN {check_pos} \cup
                      (IF repeat
                       THEN apply_move_through(b, check_pos, diff, color, repeat)
                       ELSE {})
                 ELSE {}

\* the squares apply_move pushes to the sink, walking from pos by diff
RECURSIVE apply_move(_, _, _, _, _)
apply_move(b, pos, diff, color, repeat) ==
    LET check_pos == add(pos, diff)
    IN  IF validate_position(b, check_pos).status = "Err"
        THEN {}
        ELSE LET space == get_space(b, check_pos).val
             IN  IF space = {}
                 THEN {check_pos} \cup
                      (IF repeat THEN apply_move(b, check_pos, diff, color, repeat) ELSE {})
                 ELSE IF \E piece \in space : piece.color # color
                      THEN {check_pos}
                      ELSE {}

\* generate_pawn_moves that lets the pawn capture the piece ahead of it
generate_pawn_moves_capture_ahead(b, p, c, has_moved) ==
    LET direction == IF c = "White" THEN 1 ELSE -1
        forward_space == Position(direction + p.row, p.col)
        double_forward_space == Position(2 * direction + p.row, p.col)
        positive_diagonal_space == Position(p.row + direction, p.col + 1)
        negative_diagonal_space == Position(p.row + direction, p.col - 1)
    IN  (IF is_empty_space(b, forward_space) \/ is_enemy_space(b, forward_space, c)
         THEN {forward_space} \cup
              (IF has_moved = FALSE /\ is_empty_space(b, double_forward_space)
               THEN {double_forward_space}
               ELSE {})
         ELSE {})
        \cup (IF is_enemy_space(b, positive_diagonal_space, c)
              THEN {positive_diagonal_space} ELSE {})
        \cup (IF is_enemy_space(b, negative_diagonal_space, c)
              THEN {negative_diagonal_space} ELSE {})

generate_pawn_moves(b, p, c, has_moved) ==
    LET direction == IF c = "White" THEN 1 ELSE -1
        forward_space == Position(direction + p.row, p.col)
        double_forward_space == Position(2 * direction + p.row, p.col)
        positive_diagonal_space == Position(p.row + direction, p.col + 1)
        negative_diagonal_space == Position(p.row + direction, p.col - 1)
    IN  (IF is_empty_space(b, forward_space)
         THEN {forward_space} \cup
              (IF has_moved = FALSE /\ is_empty_space(b, double_forward_space)
               THEN {double_forward_space}
               ELSE {})
         ELSE {})
        \cup (IF is_enemy_space(b, positive_diagonal_space, c)
              THEN {positive_diagonal_space} ELSE {})
        \cup (IF is_enemy_space(b, negative_diagonal_space, c)
              THEN {negative_diagonal_space} ELSE {})

----------------------------------------------------------------------------
(* lib/engine.rs: the king, the threat check and possible_moves               *)
(*                                                                          *)
(* env.early: the non-king squares HashMap::iter yields before the kings    *)
(*            (the iteration order of board.board is not specified);        *)
(* env.build: "debug" (i32 overflow panics) or "release" (it wraps);        *)
(* active:    the colours whose generate_king_moves frame is on the call    *)
(*            stack.  Re-entering the generator for such a king repeats     *)
(*            the same computation on the same board, so the recursion      *)
(*            never ends: the stack overflows.                              *)
(***************************************************************************)

\* the while loop of can_side_castle, entered with the loop variables i, can_castle
RECURSIVE castle_scan(_, _, _, _, _, _)
castle_scan(b, king_pos, i, direction, can_castle, build) ==
    IF ~(i > 0 /\ can_castle)
    THEN Ok(can_castle)
    ELSE IF direction = 1 /\ i + 1 >= b.size
    THEN \* every column from b.size to i32::MAX is off the board: get_space is
         \* Err there and can_castle stays true, until i = i32::MAX and i + 1 overflows
         LET sum == AddI32(I32Max, direction)
         IN  IF sum.overflow /\ build = "debug"
             THEN Abort("attempt to add with overflow")
             ELSE castle_scan(b, king_pos, sum.val, direction, can_castle, build)
    ELSE LET next_i == i + direction
             space == get_space(b, Position(king_pos.row, next_i))
         IN  castle_scan(b, king_pos, next_i, direction,
                         can_castle /\ ~(space.status = "Ok" /\ space.val # {}), build)

\* can_side_castle with a scan that stops before the corner square
can_side_castle_stops_before_corner(b, king_pos, is_left, build) ==
    LET rook_col == IF is_left THEN 0 ELSE b.size - 1
        corner == get_space(b, Position(king_pos.row, rook_col))
        between == IF is_left THEN 1 .. king_pos.col - 1
                   ELSE king_pos.col + 1 .. b.size - 2
    IN  Ok(/\ corner.status = "Ok"
           /\ \E piece \in corner.val : piece.has_moved = FALSE
           /\ \A i \in between : is_empty_space(b, Position(king_pos.row, i)))

can_side_castle(b, king_pos, is_left, build) ==
    LET direction == IF is_left THEN -1 ELSE 1
        rook_col == IF is_left THEN 0 ELSE b.size - 1
        corner == get_space(b, Position(king_pos.row, rook_col))
        can_castle == corner.status = "Ok"
                      /\ \E piece \in corner.val : piece.has_moved = FALSE
    IN  castle_scan(b, king_pos, king_pos.col, direction, can_castle, build)

RECURSIVE possible_moves_in(_, _, _, _)
RECURSIVE generate_king_moves(_, _, _, _, _, _)
RECURSIVE is_threatened(_, _, _, _, _)

is_threatened(b, pos, color, env, active) ==
    LET enemies == {q \in DOMAIN get_piece_positions(b) : b.board[q].color # color}
        kings == {q \in enemies : b.board[q].kind = "King"}
        before == (enemies \ kings) \cap env.early
        after == (enemies \ kings) \ env.early
        Hit(qs) == \E q \in qs : pos \in possible_moves_in(b, q, env, active).val
        king_moves == {possible_moves_in(b, q, env, active) : q \in kings}
    IN  IF Hit(before)
        THEN Ok(TRUE)
        ELSE IF \E r \in king_moves : r.status # "Ok"
        THEN Abort("stack overflow")
        ELSE Ok((\E r \in king_moves : pos \in r.val) \/ Hit(after))

generate_king_moves(b, p, color, has_moved, env, active) ==
    LET left == IF has_moved THEN Ok(FALSE) ELSE can_side_castle(b, p, TRUE, env.build)
        right == IF has_moved THEN Ok(FALSE) ELSE can_side_castle(b, p, FALSE, env.build)
        surroundings == {add(p, pos) : pos \in expand_with_inverses(
                            {Position(0, 1), Position(1, 0), Position(1, 1)})}
        candidates == {pos \in surroundings :
                          /\ get_space(b, pos).status = "Ok"
                          /\ is_enemy_space(b, pos, color) \/ is_empty_space(b, pos)}
        threat == [pos \in candidates |->
                      is_threatened(b, pos, color, env, active \cup {color})]
    IN  IF left.status # "Ok" THEN left
        ELSE IF right.status # "Ok" THEN right
        ELSE IF \E pos \in candidates : threat[pos].status # "Ok"
        THEN Abort("stack overflow")
        ELSE Ok((IF left.val THEN {Position(p.row, p.col - 3)} ELSE {})
                \cup (IF right.val THEN {Position(p.row, p.col + 2)} ELSE {})
                \cup {pos \in candidates : ~threat[pos].val})

possible_moves_in(b, p, env, active) ==
    LET space == get_space(b, p)
    IN  IF space.status = "Err" THEN Err(space.err)
        ELSE IF space.val = {} THEN Ok({})
        ELSE LET piece == CHOOSE x \in space.val : TRUE
             IN  CASE piece.kind = "Pawn" ->
                        Ok(generate_pawn_moves(b, p, piece.color, piece.has_moved))
                   [] piece.kind = "King" ->
                        IF piece.color \in active
                        THEN Abort("stack overflow")
                        ELSE generate_king_moves(b, p, piece.color, piece.has_moved,
                                                 env, active)
                   [] OTHER ->
                        LET pattern == get_move_pattern(piece.kind)
                        IN  IF pattern.status = "Err" THEN Err(pattern.err)
                            ELSE Ok(UNION {apply_move(b, p, diff, piece.color,
                                                      pattern.val.is_repeatable) :
                                           diff \in pattern.val.move_enumerations})

\* ChessEngine::possible_moves as a caller invokes it
possible_moves(b, p, env) == possible_moves_in(b, p, env, {})

----------------------------------------------------------------------------
(* lib/engine.rs: the move executor *)

is_castle(b, from, to) ==
    /\ \E piece \in get_space(b, from).val : piece.kind = "King"
    /\ (from.col - to.col = 2 \/ to.col - from.col = 2)

RECURSIVE execute_move(_, _, _, _)
RECURSIVE castle_rook(_, _, _, _)

\* the origin and the destination of the rook sub-move
castle_rook_squares(b, king_start, king_dest) ==
    LET is_right == king_start.col > king_dest.col
        rook_from_col == IF is_right THEN 0 ELSE b.size
        rook_to_col == IF is_right THEN king_dest.col - 1 ELSE king_dest.col + 1
    IN  [from |-> Position(king_start.row, rook_from_col),
         to |-> Position(king_start.row, rook_to_col)]

castle_rook(b, king_start, king_dest, env) ==
    LET sub == castle_rook_squares(b, king_start, king_dest)
        moved == execute_move(b, sub.from, sub.to, env)
    IN  IF moved.ret.status = "Ok"
        THEN [board |-> moved.board, ret |-> Ok({}), possibilities |-> moved.possibilities]
        ELSE moved

\* execute_move that relocates the piece without looking the destination up
execute_move_unchecked(b, from, to, env) ==
    LET possibilities == possible_moves(b, from, env)
    IN  IF possibilities.status # "Ok"
        THEN [board |-> b, ret |-> possibilities, possibilities |-> possibilities]
        ELSE LET moved == move_piece(b, from, to)
             IN  [board |-> moved.board, ret |-> moved.ret,
                  possibilities |-> possibilities]

\* the board after the call, the value returned and the local `possibilities`
execute_move(b, from, to, env) ==
    LET possibilities == possible_moves(b, from, env)
    IN  IF possibilities.status # "Ok"
        THEN [board |-> b, ret |-> possibilities, possibilities |-> possibilities]
        ELSE IF to \in possibilities.val
        THEN LET castled == IF is_castle(b, from, to)
                            THEN castle_rook(b, from, to, env)
                            ELSE [board |-> b, ret |-> Ok({})]
             IN  IF castled.ret.status # "Ok"
                 THEN [board |-> castled.board, ret |-> castled.ret,
                       possibilities |-> possibilities]
                 ELSE LET moved == move_piece(castled.board, from, to)
                      IN  [board |-> moved.board, ret |-> moved.ret,
                           possibilities |-> possibilities]
        ELSE [board |-> b, ret |-> Err(NotAllowed), possibilities |-> possibilities]

setup_basic_board ==
    LET b0 == Board_new(8).val
        b1 == fill(b0, {6}, {}, Piece("Pawn", "Black")).board
        b2 == fill(b1, {1}, {}, Piece("Pawn", "White")).board
        back == <<"Rook", "Knight", "Bishop", "Queen", "King", "Bishop", "Knight", "Rook">>
        map == [q \in {Position(r, c) : r \in {0, 7}, c \in 0 .. 7} |->
                   Piece(back[q.col + 1], IF q.row = 0 THEN "White" ELSE "Black")]
    IN  populate(b2, map, {})

create_board == setup_basic_board

----------------------------------------------------------------------------
(* The engine as a state machine: a caller owns one Board and calls         *)
(* possible_moves and execute_move on it.  last records the latest call:    *)
(* its arguments, the board it was given, what it returned and, for         *)
(* execute_move, the local `possibilities`.                                 *)
(***************************************************************************)

Squares(n) == {Position(r, c) : r \in 0 .. n - 1, c \in 0 .. n - 1}

\* has_moved is read for pawns, for kings and for the piece on a corner
Pieces ==
    {x \in [kind : PieceKind, color : Color, has_moved : BOOLEAN] :
        x.has_moved => x.kind \in {"King", "Pawn", "Rook"}}

NonKingSquares(b) == {q \in DOMAIN b.board : b.board[q].kind # "King"}

KingColors(b) == {b.board[q].color : q \in DOMAIN b.board \ NonKingSquares(b)}

\* The iteration order is read by is_threatened alone and decides whether the
\* kings' generators re-enter each other, which takes a king of each colour.
\* Whether a call aborts depends on the order only through the set of pieces met
\* before the kings, and grows as that set shrinks: the two extreme orders
\* produce every outcome.
Orders(b) == IF KingColors(b) = Color THEN {{}, NonKingSquares(b)} ELSE {{}}

\* An i32 overflows only in can_side_castle, scanning to the right of an unmoved
\* king that stands on the last column.
Builds(b) ==
    IF \E q \in DOMAIN b.board :
          b.board[q].kind = "King" /\ ~b.board[q].has_moved /\ q.col = b.size - 1
    THEN {"debug", "release"}
    ELSE {"release"}

Envs(b) == [early : Orders(b), build : Builds(b)]

\* no game store: the engine is called directly
NoGame == state_history = <<>> /\ threads = <<>>

NoCall(b) ==
    [op |-> "none", from |-> Position(0, 0), to |-> Position(0, 0),
     before |-> b, ret |-> Ok({}), possibilities |-> Ok({})]

\* one piece anywhere, and at most one other piece on another square
SmallSetups ==
    {EmptyMap}
    \cup {[q \in {p1} |-> x1] : p1 \in Squares(SmallSize), x1 \in Pieces}
    \cup {[q \in {p1, p2} |-> IF q = p1 THEN x1 ELSE x2] :
            <<p1, p2>> \in {pp \in Squares(SmallSize) \X Squares(SmallSize) :
                               pp[1] # pp[2]},
            <<x1, x2>> \in {xx \in Pieces \X Pieces :
                               ~(xx[1].kind = "King" /\ xx[2].kind = "King"
                                 /\ xx[1].color = xx[2].color)}}

\* 8x8 boards with a king on column 4 of its home row: each corner of the row
\* empty or holding a rook of the king's colour, and at most one knight in between
HomeRow(c) == IF c = "White" THEN 0 ELSE 7

CastleSetups ==
    {[q \in {Position(HomeRow(c), col) : col \in {4} \cup rooks \cup knight} |->
         IF q.col = 4 THEN [kind |-> "King", color |-> c, has_moved |-> km]
         ELSE IF q.col = 0 THEN [kind |-> "Rook", color |-> c, has_moved |-> lm]
         ELSE IF q.col = 7 THEN [kind |-> "Rook", color |-> c, has_moved |-> rm]
         ELSE Piece("Knight", c)] :
       c \in Color, km \in BOOLEAN, lm \in BOOLEAN, rm \in BOOLEAN,
       rooks \in SUBSET {0, 7}, knight \in {{}, {1}, {6}}}

\* a king of each colour, both moved, and a queen of either colour
ThreatSetups ==
    {[q \in {wk, bk, p3} |->
         IF q = wk THEN [kind |-> "King", color |-> "White", has_moved |-> TRUE]
         ELSE IF q = bk THEN [kind |-> "King", color |-> "Black", has_moved |-> TRUE]
         ELSE Piece("Queen", c)] :
       <<wk, bk, p3>> \in {ppp \in Squares(SmallSize) \X Squares(SmallSize)
                                       \X Squares(SmallSize) :
                              Cardinality({ppp[1], ppp[2], ppp[3]}) = 3},
       c \in Color}

\* Any board of the three families, and one call on it: every board a call can
\* produce from a small board is itself a small board.
Init ==
    /\ \/ \E setup_map \in SmallSetups \cup ThreatSetups :
             board = populate(Board_new(SmallSize).val, setup_map, {}).board
       \/ \E setup_map \in CastleSetups :
             board = populate(Board_new(8).val, setup_map, {}).board
    /\ last = NoCall(board)
    /\ budget = 1
    /\ NoGame

\* The standard arrangement, and a sequence of calls on it.
InitStd ==
    /\ board = create_board.board
    /\ last = NoCall(board)
    /\ budget = MaxCalls
    /\ NoGame

\* a stack overflow or a panic ends the caller
Alive == last.ret.status # "Abort"

OffBoard(b) ==
    {Position(-1, 0), Position(0, -1), Position(b.size, 0), Position(0, b.size)}

\* the squares a caller asks about: the board and a square off each side
Probes(b) == Squares(b.size) \cup OffBoard(b)

\* the origins a caller moves from: the pieces, a corner and a square off the board
Origins(b) == DOMAIN b.board \cup {Position(0, 0), Position(0, b.size)}

\* the destinations a caller asks for: the generator's output, the origin, the
\* squares two columns away and a square off the board
Dests(b, from, moves) ==
    moves \cup {from, Position(from.row, from.col - 2), Position(from.row, from.col + 2),
                Position(b.size, 0)}

\* possible_moves(board, p) for a p of P
Query(P) ==
    /\ Alive
    /\ budget > 0
    /\ \E p \in P :
          \E ret \in {possible_moves(board, p, env) : env \in Envs(board)} :
             last' = [op |-> "possible_moves", from |-> p, to |-> p, before |-> board,
                      ret |-> ret, possibilities |-> ret]
    /\ budget' = budget - 1
    /\ UNCHANGED <<board, game>>

\* execute_move(board, from, to) for a from of F
Move(F) ==
    /\ Alive
    /\ budget > 0
    /\ \E from \in F :
          LET moves == UNION {possible_moves(board, from, env).val : env \in Envs(board)}
          IN  \E to \in Dests(board, from, moves) :
                 \E done \in {execute_move(board, from, to, env) : env \in Envs(board)} :
                    /\ board' = done.board
                    /\ last' = [op |-> "execute_move", from |-> from, to |-> to,
                                before |-> board, ret |-> done.ret,
                                possibilities |-> done.possibilities]
    /\ budget' = budget - 1
    /\ UNCHANGED game

PossibleMoves == Query(Probes(board))

ExecuteMove == Move(Origins(board))

Next == PossibleMoves \/ ExecuteMove

Spec == Init /\ [][Next]_vars

\* On the standard arrangement the caller plays the pieces of the two centre
\* files and asks about them and about the knights.
PlayedColumns == {3, 4}

StdOrigins(b) == {q \in DOMAIN b.board : q.col \in PlayedColumns}

StdProbes(b) == StdOrigins(b) \cup {q \in DOMAIN b.board : b.board[q].kind = "Knight"}

PossibleMovesStd == Query(StdProbes(board))

ExecuteMoveStd == Move(StdOrigins(board))

NextStd == PossibleMovesStd \/ ExecuteMoveStd

SpecStd == InitStd /\ [][NextStd]_vars

\* On the standard arrangement White clears the squares between its king and
\* the rook of the last column (the king's pawn, the bishop and the knight
\* move out of the way), which takes as many moves as MaxCalls, and then asks
\* about the king or moves it.
InitCastle ==
    /\ board = create_board.board
    /\ last = NoCall(board)
    /\ budget = MaxCalls + 1
    /\ NoGame

CastleOrigins(b) ==
    {q \in DOMAIN b.board :
        /\ b.board[q].color = "White"
        /\ \/ b.board[q].kind = "Pawn" /\ q.col = 4
           \/ b.board[q].kind \in {"Bishop", "Knight", "King"} /\ q.col >= 4}

CastleProbes(b) == {q \in CastleOrigins(b) : b.board[q].kind = "King"}

PossibleMovesCastle == Query(CastleProbes(board))

ExecuteMoveCastle == Move(CastleOrigins(board))

NextCastle == PossibleMovesCastle \/ ExecuteMoveCastle

SpecCastle == InitCastle /\ [][NextCastle]_vars

----------------------------------------------------------------------------
(* The Board as its owner builds it: Board::new, then fill, populate,        *)
(* move_piece and execute_move with arguments on and off the board.         *)
(***************************************************************************)

InitBoard ==
    /\ board = Board_new(SmallSize).val
    /\ last = NoCall(board)
    /\ budget = MaxCalls
    /\ NoGame

\* the pieces the owner places
Placed == {Piece("King", "White"), Piece("Pawn", "Black")}

\* a row or column argument: None, the first line, or a line off either side
Lines(b) == {{}, {-1}, {0}, {b.size}}

\* the squares the owner names: two of the board and one off each side of row 0
Named(b) == {Position(0, 0), Position(0, 1), Position(0, -1), Position(0, b.size)}

BoardCall(op, from, to, done) ==
    /\ Alive
    /\ budget > 0
    /\ board' = done.board
    /\ last' = [op |-> op, from |-> from, to |-> to, before |-> board,
                ret |-> done.ret, possibilities |-> Ok({})]
    /\ budget' = budget - 1
    /\ UNCHANGED game

Fill ==
    \E row \in Lines(board), column \in Lines(board), piece \in Placed :
       BoardCall("fill", Position(0, 0), Position(0, 0), fill(board, row, column, piece))

\* a setup_map with a key on the board, a key off the board, or both; when both,
\* the iteration of the map meets either first
Populate ==
    \E keys \in (SUBSET {Position(1, 1), Position(1, -1)}) \ {{}}, piece \in Placed :
       \E inserted_first \in SUBSET keys :
          BoardCall("populate", Position(0, 0), Position(0, 0),
                    populate(board, [q \in keys |-> piece], inserted_first))

MovePiece ==
    \E from \in Named(board), to \in Named(board) :
       BoardCall("move_piece", from, to, move_piece(board, from, to))

ExecuteMoveBoard ==
    \E from \in Named(board) : Move({from})

NextBoard == Fill \/ Populate \/ MovePiece \/ ExecuteMoveBoard

SpecBoard == InitBoard /\ [][NextBoard]_vars

----------------------------------------------------------------------------
(* lib/game_repository.rs and lib/controller.rs: one game of the store and   *)
(* the request threads that share the GameController.                       *)
(*                                                                          *)
(* state_history is Game.state_history: append_state inserts at index 0, so *)
(* the first element is the latest snapshot.  A square name is the sequence *)
(* of the code points of its characters.  The controller takes only read    *)
(* guards of the repository lock; the game lock is held by                  *)
(* get_latest_game_board for the clone (read guard) and by update_game for  *)
(* the insert (write guard), so each of the two is one atomic step and      *)
(* everything between them runs on the thread's own clone.                  *)
(***************************************************************************)

\* i32::to_string for the ranks the controller prints
RECURSIVE DecimalString(_)
DecimalString(n) ==
    IF n < 0 THEN <<45>> \o DecimalString(-n)
    ELSE IF n < 10 THEN <<48 + n>>
    ELSE Append(DecimalString(n \div 10), 48 + (n % 10))

convert_position_to_space_name(board_size, position) ==
    <<position.col + 65>> \o DecimalString(board_size - position.row)

\* convert_space_name_to_position that takes the rank for the row
convert_space_name_to_position_unflipped(board_size, name) ==
    Position(name[2] - 48, name[1] - 65)

\* chars().nth(0), chars().nth(1) and parse::<i32>() are unwrapped: a name of
\* fewer than two characters, or whose second character is no digit, is a panic
space_name_parses(name) == Len(name) >= 2 /\ name[2] \in 48 .. 57

\* reads the first two characters; the second one is parsed as a number
convert_space_name_to_position(board_size, name) ==
    Position(board_size - (name[2] - 48), name[1] - 65)

create_game(b) == <<b>>

\* get_latest_game_board that reads the other end of the history
get_latest_game_board_oldest(h) == h[Len(h)]

get_latest_game_board(h) == h[1]

\* append_state replacing the latest snapshot instead of inserting before it
append_state_overwrite(h, b) == [h EXCEPT ![1] = b]

append_state(h, b) == <<b>> \o h

update_game(h, b) == append_state(h, b)

\* possible_moves(..).unwrap(): an Err of the engine is a panic of the thread
get_piece_move_options_helper(h, pos_str, env) ==
    LET b == get_latest_game_board(h)
        size == b.size
        position == convert_space_name_to_position(size, pos_str)
        moves == possible_moves(b, position, env)
    IN  IF moves.status # "Ok"
        THEN Abort("called Result::unwrap() on an Err value")
        ELSE Ok({convert_position_to_space_name(size, p) : p \in moves.val})

Writers == {"w1", "w2"}

Readers == {"r1"}

\* the squares the requests name: the king's file, the pawns and the squares
\* ahead of them
Names ==
    {convert_position_to_space_name(8, Position(r, 4)) : r \in {1, 2, 5, 6}}

\* a thread between two requests; board is the Board it holds, as an Option
Idle == [pc |-> "idle", src |-> <<>>, dest |-> <<>>, board |-> {}, ret |-> Ok({})]

InitGame ==
    /\ board = create_board.board
    /\ last = NoCall(board)
    /\ budget = 0
    /\ state_history = create_game(board)
    /\ threads = [t \in Writers \cup Readers |-> Idle]

\* play_move up to the validation: the options are computed from a first clone
PlayMoveValidate(t) ==
    /\ threads[t].pc = "idle"
    /\ Len(state_history) <= MaxCalls
    /\ \E src \in Names, dest \in Names :
          \E options \in {get_piece_move_options_helper(state_history, src, env) :
                             env \in Envs(get_latest_game_board(state_history))} :
             threads' = [threads EXCEPT ![t] =
                 IF options.status # "Ok"
                 THEN [Idle EXCEPT !.pc = "panicked", !.ret = options]
                 ELSE IF dest \notin options.val
                 THEN [Idle EXCEPT !.ret = Err("NotAllowed")]
                 ELSE [Idle EXCEPT !.pc = "validated", !.src = src, !.dest = dest]]
    /\ UNCHANGED <<board, last, budget, state_history>>

\* play_move: the second clone of the latest snapshot, and execute_move on it;
\* the result of execute_move is dropped by the code: ret keeps it for the
\* properties only, no action reads it
PlayMoveExecute(t) ==
    /\ threads[t].pc = "validated"
    /\ LET b == get_latest_game_board(state_history)
           src_pos == convert_space_name_to_position(b.size, threads[t].src)
           dest_pos == convert_space_name_to_position(b.size, threads[t].dest)
       IN  \E done \in {execute_move(b, src_pos, dest_pos, env) : env \in Envs(b)} :
              threads' = [threads EXCEPT ![t] =
                  IF done.ret.status = "Abort"
                  THEN [Idle EXCEPT !.pc = "panicked", !.ret = done.ret]
                  ELSE [@ EXCEPT !.pc = "executed", !.board = {done.board},
                                 !.ret = done.ret]]
    /\ UNCHANGED <<board, last, budget, state_history>>

\* play_move: update_game appends the thread's board
PlayMoveUpdate(t) ==
    /\ threads[t].pc = "executed"
    /\ \E b \in threads[t].board :
          state_history' = update_game(state_history, b)
    /\ threads' = [threads EXCEPT ![t] = Idle]
    /\ UNCHANGED <<board, last, budget>>

\* get_game: the clone of the latest snapshot, which is then serialized
GetGame(t) ==
    /\ threads[t].pc = "idle"
    /\ threads' = [threads EXCEPT ![t] =
          [Idle EXCEPT !.board = {get_latest_game_board(state_history)}]]
    /\ UNCHANGED <<board, last, budget, state_history>>

\* get_piece_move_options: the clone of the latest snapshot and its moves
GetPieceMoveOptions(t) ==
    /\ threads[t].pc = "idle"
    /\ \E pos_str \in Names :
          \E options \in {get_piece_move_options_helper(state_history, pos_str, env) :
                             env \in Envs(get_latest_game_board(state_history))} :
             threads' = [threads EXCEPT ![t] =
                 IF options.status # "Ok"
                 THEN [Idle EXCEPT !.pc = "panicked", !.ret = options]
                 ELSE [Idle EXCEPT !.board = {get_latest_game_board(state_history)},
                                   !.src = pos_str, !.ret = options]]
    /\ UNCHANGED <<board, last, budget, state_history>>

NextGame ==
    \/ \E t \in Writers : PlayMoveValidate(t) \/ PlayMoveExecute(t) \/ PlayMoveUpdate(t)
    \/ \E t \in Readers : GetGame(t) \/ GetPieceMoveOptions(t)

SpecGame == InitGame /\ [][NextGame]_vars

----------------------------------------------------------------------------
(* The square names of the controller: a position is converted to its name  *)
(* and the name back to a position, for the squares of an 8x8 board and for *)
(* squares up to two lines off it.                                          *)
(***************************************************************************)

\* the rows and columns converted
ConvertedLines == -2 .. 9

InitNames ==
    /\ board = Board_new(8).val
    /\ \E r \in ConvertedLines, c \in ConvertedLines :
          last = [NoCall(board) EXCEPT !.from = Position(r, c)]
    /\ budget = 2
    /\ NoGame

\* convert_position_to_space_name(board.get_size(), last.from)
ConvertPositionToSpaceName ==
    /\ last.op = "none"
    /\ last' = [last EXCEPT !.op = "convert_position_to_space_name",
                            !.ret = Ok(convert_position_to_space_name(board.size, last.from))]
    /\ budget' = budget - 1
    /\ UNCHANGED <<board, game>>

\* convert_space_name_to_position(board.get_size(), name) for the name just made
ConvertSpaceNameToPosition ==
    /\ last.op = "convert_position_to_space_name"
    /\ last' = IF space_name_parses(last.ret.val)
               THEN [last EXCEPT !.op = "convert_space_name_to_position",
                                 !.to = convert_space_name_to_position(board.size,
                                                                       last.ret.val),
                                 !.possibilities = last.ret]
               ELSE [last EXCEPT !.op = "convert_space_name_to_position",
                                 !.ret = Abort("called Result::unwrap() on an Err value"),
                                 !.possibilities = last.ret]
    /\ budget' = budget - 1
    /\ UNCHANGED <<board, game>>

NextNames == ConvertPositionToSpaceName \/ ConvertSpaceNameToPosition

SpecNames == InitNames /\ [][NextNames]_vars

----------------------------------------------------------------------------
(* Properties *)

OnBoard(b, p) == 0 <= p.row /\ p.row < b.size /\ 0 <= p.col /\ p.col < b.size

Queried == last.op = "possible_moves"

Executed == last.op = "execute_move"

\* the piece on the square the latest call started from, as an Option
Mover == MapGet(last.before.board, last.from)

MoverIs(kinds) == \E piece \in Mover : piece.kind \in kinds

\* C1: possible_moves returns the out-of-bounds error exactly for a square off
\* the board, returns a list for every square on the board, and returns the
\* empty list for an empty square on the board.
C1_PossibleMovesOutcome ==
    Queried =>
        /\ (last.ret.status = "Err" /\ last.ret.err = OutOfBounds)
              <=> ~OnBoard(last.before, last.from)
        /\ OnBoard(last.before, last.from) => last.ret.status = "Ok"
        /\ (OnBoard(last.before, last.from) /\ Mover = {}) => last.ret = Ok({})

\* C2: every position possible_moves returns for an occupied square lies on the
\* board.
C2_MovesOnBoard ==
    (Queried /\ Mover # {} /\ last.ret.status = "Ok") =>
        \A q \in last.ret.val : OnBoard(last.before, q)

\* C3: execute_move with an origin on the board and a destination that
\* possible_moves does not return fails with the not-allowed error and leaves
\* the board as it was.
C3_NotAllowedKeepsBoard ==
    (/\ Executed
     /\ OnBoard(last.before, last.from)
     /\ last.possibilities.status = "Ok"
     /\ last.to \notin last.possibilities.val) =>
        /\ last.ret = Err(NotAllowed)
        /\ board = last.before

C3_Witness ==
    /\ Executed
    /\ Mover # {}
    /\ last.possibilities.status = "Ok"
    /\ last.possibilities.val # {}
    /\ last.to \notin last.possibilities.val
    /\ OnBoard(last.before, last.to)
    /\ last.ret = Err(NotAllowed)

\* C4: after a successful execute_move that is not a castle the origin is empty,
\* the destination holds the piece that stood on the origin, marked as moved, and
\* every other square holds what it held before.
C4_MoveFrame ==
    (/\ Executed
     /\ last.ret.status = "Ok"
     /\ ~is_castle(last.before, last.from, last.to)) =>
        /\ MapGet(board.board, last.from) = {}
        /\ \E piece \in Mover :
              MapGet(board.board, last.to) =
                 {[kind |-> piece.kind, color |-> piece.color, has_moved |-> TRUE]}
        /\ \A q \in (DOMAIN board.board \cup DOMAIN last.before.board)
                       \ {last.from, last.to} :
              MapGet(board.board, q) = MapGet(last.before.board, q)
        /\ board.size = last.before.size

C4_Witness ==
    /\ Executed
    /\ last.ret.status = "Ok"
    /\ ~is_castle(last.before, last.from, last.to)
    /\ \E piece \in Mover : piece.has_moved = FALSE
    /\ \E q \in DOMAIN board.board : q # last.to /\ board.board[q].has_moved = FALSE

Occupied(b, p) == p \in DOMAIN b.board

Between(x, y) == IF x < y THEN x + 1 .. y - 1 ELSE y + 1 .. x - 1

\* an unmoved king on k, an unmoved rook of its colour on the corner of its row
\* at column corner_col, and nothing in between
RookReady(b, k, corner_col) ==
    /\ Occupied(b, k) /\ Occupied(b, Position(k.row, corner_col))
    /\ b.board[k].kind = "King" /\ b.board[k].has_moved = FALSE
    /\ b.board[Position(k.row, corner_col)] = Piece("Rook", b.board[k].color)
    /\ \A c \in Between(k.col, corner_col) : ~Occupied(b, Position(k.row, c))

\* C5: on an 8x8 board an unmoved king on column 4 of its home row, with an
\* unmoved rook of its colour on both corners of the row and nothing in
\* between, is offered both castle destinations, two columns to either side.
C5_CastleOfferedBothSides ==
    (/\ Queried
     /\ last.before.size = 8
     /\ RookReady(last.before, last.from, 0)
     /\ RookReady(last.before, last.from, 7)
     /\ last.from = Position(HomeRow(last.before.board[last.from].color), 4)) =>
        /\ last.ret.status = "Ok"
        /\ {Position(last.from.row, last.from.col - 2),
            Position(last.from.row, last.from.col + 2)} \subseteq last.ret.val

\* C6: moving an unmoved king two squares toward an unmoved corner rook of its
\* colour, with nothing in between, succeeds and leaves the king on its
\* destination, the rook next to it on the side the king came from, the king's
\* origin and the rook's corner empty, and both pieces marked as moved.
C6_CastleRelocatesBoth ==
    \A corner_col \in {0, last.before.size - 1} :
        LET side == IF corner_col = 0 THEN -1 ELSE 1
            rook_to == Position(last.to.row, last.to.col - side)
        IN  (/\ Executed
             /\ RookReady(last.before, last.from, corner_col)
             /\ Between(last.from.col, corner_col) # {}
             /\ last.to = Position(last.from.row, last.from.col + 2 * side)
             /\ last.to.col # corner_col) =>
                /\ last.ret.status = "Ok"
                /\ MapGet(board.board, last.to) =
                      {[last.before.board[last.from] EXCEPT !.has_moved = TRUE]}
                /\ MapGet(board.board, rook_to) =
                      {[kind |-> "Rook", color |-> last.before.board[last.from].color,
                        has_moved |-> TRUE]}
                /\ MapGet(board.board, last.from) = {}
                /\ MapGet(board.board, Position(last.from.row, corner_col)) = {}

Step(p, off, k) == Position(p.row + k * off.row, p.col + k * off.col)

Orthogonal == {Position(0, 1), Position(0, -1), Position(1, 0), Position(-1, 0)}

Diagonal == {Position(1, 1), Position(1, -1), Position(-1, 1), Position(-1, -1)}

Jumps ==
    {Position(1, 2), Position(1, -2), Position(-1, 2), Position(-1, -2),
     Position(2, 1), Position(2, -1), Position(-2, 1), Position(-2, -1)}

ReferenceOffsets(kind) ==
    CASE kind = "Rook" -> Orthogonal
      [] kind = "Bishop" -> Diagonal
      [] kind = "Queen" -> Orthogonal \cup Diagonal
      [] kind = "Knight" -> Jumps

\* the squares of the reference walk: k steps along an offset (one step for a
\* knight), all squares before the k-th empty, the k-th empty or enemy-occupied
ReferenceWalk(b, p, piece) ==
    {d \in Squares(b.size) :
        \E off \in ReferenceOffsets(piece.kind) :
           \E k \in 1 .. (IF piece.kind = "Knight" THEN 1 ELSE b.size) :
              /\ d = Step(p, off, k)
              /\ \A j \in 1 .. k - 1 : ~Occupied(b, Step(p, off, j))
              /\ Occupied(b, d) => b.board[d].color # piece.color}

Walkers == {"Queen", "Rook", "Bishop", "Knight"}

\* C7: for a queen, rook, bishop or knight possible_moves returns exactly the
\* squares of the reference walk; in particular nothing beyond the first
\* occupied square of a direction.
C7_WalkIsReference ==
    (Queried /\ MoverIs(Walkers)) =>
        \E piece \in Mover : last.ret = Ok(ReferenceWalk(last.before, last.from, piece))

\* a slider with an enemy piece next to it and a square of the board behind that piece
C7_Witness ==
    /\ Queried /\ MoverIs({"Queen", "Rook", "Bishop"})
    /\ last.ret.status = "Ok"
    /\ \E off \in Orthogonal \cup Diagonal :
          /\ Step(last.from, off, 1) \in last.ret.val
          /\ Occupied(last.before, Step(last.from, off, 1))
          /\ OnBoard(last.before, Step(last.from, off, 2))
          /\ Step(last.from, off, 2) \notin last.ret.val

Direction(c) == IF c = "White" THEN 1 ELSE -1

IsEmpty(b, p) == OnBoard(b, p) /\ ~Occupied(b, p)

IsEnemy(b, p, c) == OnBoard(b, p) /\ Occupied(b, p) /\ b.board[p].color # c

PawnReference(b, p, piece) ==
    LET one == Position(p.row + Direction(piece.color), p.col)
        two == Position(p.row + 2 * Direction(piece.color), p.col)
    IN  {d \in {one} : IsEmpty(b, one)}
        \cup {d \in {two} : ~piece.has_moved /\ IsEmpty(b, one) /\ IsEmpty(b, two)}
        \cup {d \in {Position(one.row, p.col - 1), Position(one.row, p.col + 1)} :
                 IsEnemy(b, d, piece.color)}

\* C8: for a pawn possible_moves returns exactly the empty square one ahead, the
\* square two ahead when the pawn has not moved and both squares ahead are empty,
\* and the diagonal-ahead squares that hold an enemy piece.
C8_PawnIsReference ==
    (Queried /\ MoverIs({"Pawn"})) =>
        \E piece \in Mover : last.ret = Ok(PawnReference(last.before, last.from, piece))

\* a pawn with an enemy piece on the square ahead: it may not move
C8_Witness ==
    /\ Queried /\ MoverIs({"Pawn"})
    /\ \E piece \in Mover :
          LET one == Position(last.from.row + Direction(piece.color), last.from.col)
          IN  /\ Occupied(last.before, one)
              /\ IsEnemy(last.before, one, piece.color)
              /\ last.ret = Ok({})

\* a pawn of the standard arrangement stands off its home row exactly when a
\* successful execute_move has relocated it: pawns only move forward
PawnRow(c) == IF c = "White" THEN 1 ELSE 6

RelocatedPawn(b, p) ==
    Occupied(b, p) /\ b.board[p].kind = "Pawn" /\ p.row # PawnRow(b.board[p].color)

TwoAhead(b, p) == Position(p.row + 2 * Direction(b.board[p].color), p.col)

\* C9: in a sequence of calls from the standard arrangement, possible_moves for
\* a pawn that an execute_move has relocated never contains the square two
\* rows ahead of it.
C9_NoDoubleStepAfterMove ==
    (Queried /\ RelocatedPawn(last.before, last.from)) =>
        TwoAhead(last.before, last.from) \notin last.ret.val

C9_Witness ==
    /\ Queried /\ RelocatedPawn(last.before, last.from)
    /\ IsEmpty(last.before, TwoAhead(last.before, last.from))
    /\ IsEmpty(last.before, Position(last.from.row
                   + Direction(last.before.board[last.from].color), last.from.col))
    /\ last.ret.status = "Ok" /\ last.ret.val # {}

Neighbours(p) == {Step(p, off, 1) : off \in Orthogonal \cup Diagonal}

\* the attack squares of the pieces that are not of colour c
AttackSquares(b, c) ==
    UNION {LET piece == b.board[q]
           IN  IF piece.kind \in Walkers THEN ReferenceWalk(b, q, piece)
               ELSE IF piece.kind = "Pawn"
               THEN {d \in {Position(q.row + Direction(piece.color), q.col - 1),
                            Position(q.row + Direction(piece.color), q.col + 1)} :
                        OnBoard(b, d)}
               ELSE {d \in Neighbours(q) : OnBoard(b, d)} :
           q \in {q \in DOMAIN b.board : b.board[q].color # c}}

\* C10: no adjacent square that possible_moves returns for a king is an attack
\* square of an enemy piece.
C10_KingAvoidsAttackSquares ==
    (Queried /\ MoverIs({"King"}) /\ last.ret.status = "Ok") =>
        \A d \in last.ret.val \cap Neighbours(last.from) :
           d \notin AttackSquares(last.before, last.before.board[last.from].color)

\* C11: whenever execute_move returns an error, the board after the call is the
\* board before the call: nothing removed, relocated or marked as moved.
C11_ErrorKeepsBoard ==
    (Executed /\ last.ret.status = "Err") => board = last.before

\* C12: execute_move from an empty square of the board fails with the
\* nothing-to-move error, whatever the destination.
C12_EmptyOriginIsNoPiece ==
    (Executed /\ OnBoard(last.before, last.from) /\ Mover = {}) =>
        last.ret = Err(NoPieceAtOrigin)

\* C13: execute_move that returns with its origin or its destination off the
\* board returns the out-of-bounds error.
C13_OffBoardIsOutOfBounds ==
    (/\ Executed
     /\ last.ret.status # "Abort"
     /\ ~OnBoard(last.before, last.from) \/ ~OnBoard(last.before, last.to)) =>
        last.ret = Err(OutOfBounds)

\* C15: in a sequence of calls from the standard arrangement possible_moves
\* returns for every square of the board: the threat check never re-enters the
\* generator of the opposing king.
C15_PossibleMovesTerminates ==
    (Queried /\ OnBoard(last.before, last.from)) => last.ret.status # "Abort"

\* C19: a successful execute_move returns the piece that stood on the
\* destination before the call, unchanged, or none if the destination was empty,
\* and that piece is no longer on the board: the destination holds the mover and
\* the board has one piece less for a displaced piece.
C19_ReturnsDisplacedPiece ==
    (Executed /\ last.ret.status = "Ok") =>
        /\ last.ret.val = MapGet(last.before.board, last.to)
        /\ \E piece \in Mover :
              MapGet(board.board, last.to) = {[piece EXCEPT !.has_moved = TRUE]}
        /\ Cardinality(DOMAIN board.board) =
              Cardinality(DOMAIN last.before.board) - Cardinality(last.ret.val)

\* a capture of a piece that has moved
C19_Witness ==
    /\ Executed /\ last.ret.status = "Ok"
    /\ \E piece \in last.ret.val :
          /\ piece.has_moved
          /\ \E mover \in Mover : mover.color # piece.color
    /\ Cardinality(DOMAIN board.board) = 1

KnightHomes == {Position(r, c) : r \in {0, 7}, c \in {1, 6}}

\* C20: on the standard arrangement possible_moves returns exactly two
\* destinations for each knight on its starting square.
C20_KnightHasTwoMoves ==
    (Queried /\ last.before = create_board.board /\ last.from \in KnightHomes) =>
        /\ last.before.board[last.from].kind = "Knight"
        /\ last.ret.status = "Ok"
        /\ Cardinality(last.ret.val) = 2

C20_Witness ==
    /\ Queried /\ last.before = create_board.board
    /\ last.from = Position(7, 6)
    /\ last.ret = Ok({Position(5, 5), Position(5, 7)})

\* C16: possible_moves leaves the board as it was, and its outcome (the set
\* returned, or the failure) is the same for every iteration order of the
\* occupancy map.
C16_PossibleMovesDeterministic ==
    Queried =>
        /\ board = last.before
        /\ \A e1, e2 \in Envs(last.before) :
              e1.build = e2.build =>
                 possible_moves(last.before, last.from, e1)
                    = possible_moves(last.before, last.from, e2)

\* C14: every key of the occupancy map lies on the board, and get_space and
\* set_space for a position off the board return the out-of-bounds error and
\* leave the map as it is.
C14_KeysOnBoard ==
    /\ \A q \in DOMAIN board.board : OnBoard(board, q)
    /\ \A p \in OffBoard(board) \cup Named(board) :
          ~OnBoard(board, p) =>
             /\ get_space(board, p) = Err(OutOfBounds)
             /\ \A piece \in {{}} \cup {{x} : x \in Placed} :
                   set_space(board, p, piece) = [board |-> board, ret |-> Err(OutOfBounds)]

\* execute_move handed move_piece a destination off the board, and set_space
\* refused it
C14_Witness ==
    /\ Executed
    /\ last.to \in last.possibilities.val
    /\ ~OnBoard(last.before, last.to)
    /\ last.ret = Err(OutOfBounds)
    /\ board # last.before

\* next is prev after one successful execute_move (a successful move empties
\* its origin)
OneMoveApart(prev, next) ==
    \E from \in DOMAIN prev.board \ DOMAIN next.board :
       \E env \in Envs(prev) :
          \E to \in possible_moves(prev, from, env).val :
             LET done == execute_move(prev, from, to, env)
             IN  done.ret.status = "Ok" /\ done.board = next

\* C17: under any interleaving of play_move calls, every snapshot of the
\* history is the result of applying one move to the snapshot before it.
C17_WritersSerialized ==
    \A k \in 1 .. Len(state_history) - 1 :
       OneMoveApart(state_history[k + 1], state_history[k])

HistoryBoards == {state_history[k] : k \in 1 .. Len(state_history)}

\* C18: every board a reader holds is a snapshot of the history: the initial
\* board or a board that an update_game appended.
C18_ReadersSeeSnapshots ==
    \A t \in DOMAIN threads :
       (t \in Readers) => threads[t].board \subseteq HistoryBoards

\* a reader holds a snapshot that a writer appended, and a writer has since
\* executed a move on its own clone and appended that
C18_Witness ==
    /\ Len(state_history) >= 3
    /\ \E t \in DOMAIN threads :
          /\ t \in Readers
          /\ threads[t].board = {state_history[2]}
          /\ state_history[2] # state_history[1]

\* C21: in a sequence of calls from the standard arrangement, where every piece
\* starts unmoved, a piece that is unmoved after a step stood unmoved on the
\* same square before it (the flag is never reset and an unmoved piece is never
\* relocated), the piece a successful execute_move relocates is marked as moved,
\* and possible_moves and a failing execute_move leave every flag as it was.
C21_HasMovedTracksRelocation ==
    [][/\ \A q \in DOMAIN board'.board :
             ~board'.board[q].has_moved =>
                 q \in DOMAIN board.board /\ board.board[q] = board'.board[q]
       /\ \A q \in DOMAIN board'.board :
             (board'.board[q].has_moved
              /\ ~(q \in DOMAIN board.board /\ board.board[q].has_moved)) =>
                 /\ last'.op = "execute_move" /\ last'.ret.status = "Ok"
                 /\ q = last'.to
       /\ (last'.op = "execute_move" /\ last'.ret.status = "Ok") =>
             board'.board[last'.to].has_moved
       /\ (last'.op = "possible_moves" \/ last'.ret.status # "Ok") =>
             \A q \in DOMAIN board'.board :
                q \in DOMAIN board.board /\ board'.board[q] = board.board[q]]_vars

\* the second relocation of a piece, with unmoved pieces left on the board
C21_Witness ==
    /\ Executed /\ last.ret.status = "Ok"
    /\ \E piece \in Mover : piece.has_moved
    /\ last.before.size = 8
    /\ \E q \in DOMAIN board.board : ~board.board[q].has_moved

\* C22: possible_moves for a king contains a square that is not one of its
\* eight neighbours only if the king is unmoved, the square lies on the board on
\* the king's row two columns away, the corner of the row on that side holds an
\* unmoved rook of the king's colour and the squares between the two are empty.
C22_CastleOnlyWhenEligible ==
    (Queried /\ MoverIs({"King"}) /\ last.ret.status = "Ok") =>
        \A d \in last.ret.val \ Neighbours(last.from) :
           \E corner_col \in {0, last.before.size - 1} :
              /\ RookReady(last.before, last.from, corner_col)
              /\ d = Position(last.from.row,
                              last.from.col + (IF corner_col = 0 THEN -2 ELSE 2))
              /\ OnBoard(last.before, d)

\* the squares one and two rows ahead of the pawns that are not of colour c
AheadOfEnemyPawns(b, c) ==
    UNION {{Position(q.row + Direction(b.board[q].color), q.col),
            Position(q.row + 2 * Direction(b.board[q].color), q.col)} :
           q \in {q \in DOMAIN b.board :
                     b.board[q].kind = "Pawn" /\ b.board[q].color # c}}

\* C24: an empty square of the board next to a king that lies ahead of an enemy
\* pawn and is no attack square of any enemy piece (the pawns' diagonals, the
\* enemy king's neighbours, the walks of the others) is among the king's
\* destinations.
C24_PawnThreatensDiagonalsOnly ==
    (Queried /\ MoverIs({"King"}) /\ last.ret.status = "Ok") =>
        \A d \in Neighbours(last.from) :
           (/\ IsEmpty(last.before, d)
            /\ d \in AheadOfEnemyPawns(last.before, last.before.board[last.from].color)
            /\ d \notin AttackSquares(last.before, last.before.board[last.from].color)) =>
               d \in last.ret.val

\* C27: a successful execute_move never displaces a piece of the mover's colour:
\* a returned piece is of the other colour and the board has one piece less, and
\* without a returned piece the board has as many pieces as before.
C27_NeverCapturesOwnPiece ==
    (Executed /\ last.ret.status = "Ok") =>
        /\ \A piece \in last.ret.val : \A mover \in Mover : piece.color # mover.color
        /\ last.ret.val # {} =>
              Cardinality(DOMAIN board.board) = Cardinality(DOMAIN last.before.board) - 1
        /\ last.ret.val = {} =>
              Cardinality(DOMAIN board.board) = Cardinality(DOMAIN last.before.board)

\* a king captures
C27_Witness ==
    /\ Executed /\ last.ret.status = "Ok"
    /\ MoverIs({"King"})
    /\ last.ret.val # {}
    /\ last.to \in DOMAIN last.before.board

\* C30: possible_moves returns for an unmoved king on any column of its row, the
\* first and the last included, when no king of the other colour is on the
\* board: the scan of can_side_castle ends at the edge of the board.
C30_CastleScanTerminates ==
    (/\ Queried
     /\ \E piece \in Mover : piece.kind = "King" /\ ~piece.has_moved
     /\ Cardinality(KingColors(last.before)) = 1) =>
        last.ret.status = "Ok"

\* C23: the rook sub-move of a castle goes from the corner of the king's row on
\* the side the king moves toward (column 0 toward lower columns, the last
\* column toward higher ones) to the square of the board next to the king's
\* destination, both squares lie on the board, and a failure of the sub-move is
\* what the call returns.
C23_RookSubMoveFromCorner ==
    (/\ Executed
     /\ last.possibilities.status = "Ok"
     /\ last.to \in last.possibilities.val
     /\ is_castle(last.before, last.from, last.to)) =>
        LET sub == castle_rook_squares(last.before, last.from, last.to)
            corner_col == IF last.to.col < last.from.col THEN 0 ELSE last.before.size - 1
        IN  /\ sub.from = Position(last.from.row, corner_col)
            /\ sub.to \in {Position(last.to.row, last.to.col - 1),
                            Position(last.to.row, last.to.col + 1)}
            /\ OnBoard(last.before, sub.from)
            /\ OnBoard(last.before, sub.to)
            /\ \A env \in Envs(last.before) :
                  LET moved == execute_move(last.before, sub.from, sub.to, env)
                  IN  moved.ret.status = "Err" => last.ret = moved.ret

\* C25: on an 8x8 board the name of a square (r, c) of the board is the letter
\* 'A' + c followed by the digit 8 - r, (0, 1) is "B8", and converting the name
\* back yields (r, c).
C25_NameRoundTrip ==
    /\ (last.op = "convert_position_to_space_name" /\ OnBoard(board, last.from)) =>
          /\ last.ret = Ok(<<65 + last.from.col, 48 + (8 - last.from.row)>>)
          /\ last.from = Position(0, 1) => last.ret.val = <<66, 56>>
    /\ (last.op = "convert_space_name_to_position" /\ OnBoard(board, last.from)) =>
          /\ last.ret.status = "Ok"
          /\ last.to = last.from
          /\ last.possibilities.val = <<66, 56>> => last.to = Position(0, 1)

\* the last row of the board came back from its name, rank 1
C25_Witness ==
    /\ last.op = "convert_space_name_to_position"
    /\ board.size = 8
    /\ last.from = Position(7, 7)
    /\ last.possibilities.val = <<72, 49>>
    /\ last.to = Position(7, 7)

\* C26: in a sequence of calls from the standard arrangement, every square
\* that possible_moves returns for a king is one of its eight neighbours, and no
\* execute_move takes the castle branch.
C26_NoCastleFromStandard ==
    /\ (Queried /\ MoverIs({"King"}) /\ last.ret.status = "Ok") =>
          last.ret.val \subseteq Neighbours(last.from)
    /\ (Executed /\ last.possibilities.status = "Ok"
        /\ last.to \in last.possibilities.val) =>
          ~is_castle(last.before, last.from, last.to)

\* an unmoved king, an unmoved rook on the last column and nothing in between:
\* the king is given its neighbours only
C26_Witness ==
    /\ Queried /\ last.ret.status = "Ok" /\ last.ret.val # {}
    /\ last.before = board
    /\ board.size = 8
    /\ RookReady(board, last.from, 7)
    /\ Between(last.from.col, 7) # {}

\* C28: play_move appends a snapshot and returns Ok only if its execute_move
\* succeeded: a step that appends to the history is the step of a writer whose
\* execute_move returned Ok.
C28_PlayMoveOkOnlyAfterSuccess ==
    [][Len(state_history') > Len(state_history) =>
          \E t \in Writers :
             /\ threads[t].pc = "executed"
             /\ threads'[t].pc = "idle"
             /\ threads[t].ret.status = "Ok"]_vars

====
